---- MODULE Spec2Model ----
(***************************************************************************)
(* Containment inference, bounding-box geometry and collection grouping   *)
(* of the SEM figure maker (src/collections.py), with the ImageCollection  *)
(* entity and its dictionary serialisation.                                *)
(*                                                                         *)
(* Numbers: stage positions and fields of view are integers (micrometres). *)
(* Every comparison the code makes between sums of halves and twentieths   *)
(* of such values is made here on the same quantities multiplied by a      *)
(* common positive factor, i.e. in exact rational arithmetic.  A           *)
(* normalised coordinate is a fraction <<n, d>> with d > 0.                *)
(***************************************************************************)
EXTENDS Integers, Sequences, FiniteSets, TLC

\* ------------------------------------------------------------------ bounds
MaxImages == 2          \* images in a general metadata map
MaxPos == 1             \* stage positions of a general record are 0..MaxPos
MaxFov == 3             \* fields of view are -1, 0, 1 and MaxFov
MaxMag == 1             \* "Mag(pol)" of a general record is absent or in 1..MaxMag
MaxExtracted == 5       \* images in a map of records shaped by the extractor
MaxDamaged == 4         \* images in a map of extracted records, some lacking a field
MaxCollImages == 2      \* images added to the collection built by its methods
MaxEdges == 2           \* containment edges added to that collection
MaxRowPos == 2          \* stage x of an extracted record is 0..MaxRowPos
MaxNested == 3          \* images in a map of extracted records of three widths
MaxChildren == 11       \* children added under one parent before assign_colors
MaxStored == 2          \* images in a map whose collections are saved
MaxShown == 2           \* images in a folder the controller processes
MaxRuns == 2            \* runs of process_folder_with_info
MaxMarginNum == 4       \* margin fractions compared are 0..MaxMarginNum over MarginDen

\* ------------------------------------------------------- program constants
MarginNum == 1          \* the margin 0.05 = MarginNum / MarginDen
MarginDen == 20
MagNumerator == 127000  \* mag_pol = int(127000 / field_of_view_width)

None == <<>>

GeometryFields ==
    {"field_of_view_width", "field_of_view_height",
     "sample_position_x", "sample_position_y"}

\* dict.get(key, default)
Get(d, k, default) == IF k \in DOMAIN d THEN d[k] ELSE default

Range(s) == {s[i] : i \in 1..Len(s)}

IndexOf(s, e) == CHOOSE i \in 1..Len(s) : s[i] = e

\* A Python dict with its insertion order: [order |-> <<keys>>, rec |-> [key -> value]].
EmptyDict == [order |-> <<>>, rec |-> <<>>]

DictSet(d, k, v) ==
    IF k \in Range(d.order)
    THEN [d EXCEPT !.rec[k] = v]
    ELSE [order |-> Append(d.order, k),
          rec |-> [x \in Range(d.order) \cup {k} |-> IF x = k THEN v ELSE d.rec[x]]]

\* ----------------------------------------------------------------- sorting
\* sorted(image_metadata.keys(), key=lambda x: image_metadata[x].get("Mag(pol)", 0)):
\* a stable sort, so equal magnifications keep the dict's insertion order.
SortKey(image_metadata, k) == Get(image_metadata.rec[k], "Mag(pol)", 0)

SortsBefore(image_metadata, a, b) ==
    \/ SortKey(image_metadata, a) < SortKey(image_metadata, b)
    \/ /\ SortKey(image_metadata, a) = SortKey(image_metadata, b)
       /\ IndexOf(image_metadata.order, a) < IndexOf(image_metadata.order, b)

sorted_images(image_metadata) ==
    LET keys == Range(image_metadata.order)
        rank(k) == 1 + Cardinality({j \in keys : SortsBefore(image_metadata, j, k)})
    IN  [p \in 1..Len(image_metadata.order) |-> CHOOSE k \in keys : rank(k) = p]

\* ------------------------------------------------------------- containment
HasGeometry(meta) == \A k \in GeometryFields : k \in DOMAIN meta

\* AxisContainedAt with the margin taken off the low-magnification extent
\* instead of added to it.
AxisContainedAt_shrinking(low_c, low_fov, high_c, high_fov, margin_num) ==
    LET s == 2 * MarginDen
        low_min  == s * low_c - MarginDen * low_fov
        low_max  == s * low_c + MarginDen * low_fov
        high_min == s * high_c - MarginDen * high_fov
        high_max == s * high_c + MarginDen * high_fov
        margin   == 2 * margin_num * low_fov
    IN  (low_min + margin) < high_min /\ (low_max - margin) > high_max

\* (low_min - margin) < high_min and (low_max + margin) > high_max on one axis
\* for margin = low_fov * margin_num / MarginDen, every term multiplied by
\* 2 * MarginDen.
AxisContainedAt(low_c, low_fov, high_c, high_fov, margin_num) ==
    LET s == 2 * MarginDen
        low_min  == s * low_c - MarginDen * low_fov
        low_max  == s * low_c + MarginDen * low_fov
        high_min == s * high_c - MarginDen * high_fov
        high_max == s * high_c + MarginDen * high_fov
        margin   == 2 * margin_num * low_fov
    IN  (low_min - margin) < high_min /\ (low_max + margin) > high_max

\* The test of one axis with the code's margin, low_fov * 0.05.
AxisContained(low_c, low_fov, high_c, high_fov) ==
    AxisContainedAt(low_c, low_fov, high_c, high_fov, MarginNum)

\* Contains with "or" between the axes instead of "and".
Contains_either_axis(low_mag_meta, high_mag_meta) ==
    \/ AxisContained(low_mag_meta["sample_position_x"], low_mag_meta["field_of_view_width"],
                     high_mag_meta["sample_position_x"], high_mag_meta["field_of_view_width"])
    \/ AxisContained(low_mag_meta["sample_position_y"], low_mag_meta["field_of_view_height"],
                     high_mag_meta["sample_position_y"], high_mag_meta["field_of_view_height"])

Contains(low_mag_meta, high_mag_meta) ==
    LET x_contained == AxisContained(low_mag_meta["sample_position_x"],
                                     low_mag_meta["field_of_view_width"],
                                     high_mag_meta["sample_position_x"],
                                     high_mag_meta["field_of_view_width"])
        y_contained == AxisContained(low_mag_meta["sample_position_y"],
                                     low_mag_meta["field_of_view_height"],
                                     high_mag_meta["sample_position_y"],
                                     high_mag_meta["field_of_view_height"])
    IN  x_contained /\ y_contained

\* The elements of s that are in keep, in the order of s.
RECURSIVE SelectSeq2(_, _)
SelectSeq2(s, keep) ==
    IF s = <<>> THEN <<>>
    ELSE IF Head(s) \in keep THEN <<Head(s)>> \o SelectSeq2(Tail(s), keep)
    ELSE SelectSeq2(Tail(s), keep)

\* ContainedImages scanning sorted_images[i:] instead of sorted_images[i+1:].
ContainedImages_from_self(image_metadata, sorted, i) ==
    LET Test(high_mag_img) ==
            /\ HasGeometry(image_metadata.rec[high_mag_img])
            /\ Contains(image_metadata.rec[sorted[i]], image_metadata.rec[high_mag_img])
    IN  IF HasGeometry(image_metadata.rec[sorted[i]])
        THEN SelectSeq2(SubSeq(sorted, i, Len(sorted)), {k \in Range(sorted) : Test(k)}) ELSE <<>>

\* ContainedImages scanning every other image instead of the later ones.
ContainedImages_all_others(image_metadata, sorted, i) ==
    LET Test(high_mag_img) ==
            /\ high_mag_img # sorted[i]
            /\ HasGeometry(image_metadata.rec[high_mag_img])
            /\ Contains(image_metadata.rec[sorted[i]], image_metadata.rec[high_mag_img])
    IN  IF HasGeometry(image_metadata.rec[sorted[i]]) THEN SelectSeq2(sorted, {k \in Range(sorted) : Test(k)}) ELSE <<>>

\* The children the inner loop collects for the image at position i of the sort.
ContainedImages(image_metadata, sorted, i) ==
    LET low_mag_meta == image_metadata.rec[sorted[i]]
        later == SubSeq(sorted, i + 1, Len(sorted))
        Test(high_mag_img) ==
            /\ HasGeometry(image_metadata.rec[high_mag_img])
            /\ Contains(low_mag_meta, image_metadata.rec[high_mag_img])
    IN  IF HasGeometry(low_mag_meta) THEN SelectSeq2(later, {k \in Range(later) : Test(k)}) ELSE <<>>

\* The outer loop of _analyze_containment from position i on.
RECURSIVE containment_loop(_, _, _, _)
containment_loop(image_metadata, sorted, i, containment_map) ==
    IF i > Len(sorted) THEN containment_map
    ELSE containment_loop(image_metadata, sorted, i + 1,
                          IF ContainedImages(image_metadata, sorted, i) # <<>>
                          THEN DictSet(containment_map, sorted[i],
                                       ContainedImages(image_metadata, sorted, i))
                          ELSE containment_map)

\* _analyze_containment: the dict parent -> list of children, parents in sort order.
analyze_containment(image_metadata) ==
    containment_loop(image_metadata, sorted_images(image_metadata), 1, EmptyDict)

\* ------------------------------------------------------------ bounding box
\* max(0, min(1, n/d)) for d > 0.
Clamp(f) ==
    IF f[1] > f[2] THEN <<f[2], f[2]>>
    ELSE IF f[1] < 0 THEN <<0, f[2]>>
    ELSE f

\* HalfPlus without the "0.5 +".
HalfPlus_without_half(num2, fov) ==
    IF fov > 0 THEN <<num2, 2 * fov>> ELSE <<-num2, -(2 * fov)>>

\* 0.5 + num/fov as a fraction with a positive denominator (fov # 0).
HalfPlus(num2, fov) ==
    IF fov > 0 THEN <<fov + num2, 2 * fov>> ELSE <<-(fov + num2), -(2 * fov)>>

\* The outcome of a call that ended in an exception the callee did not catch.
Raised == <<"raised">>

\* The try block of _calculate_bounding_box: the tuple or None it returns, or the
\* exception it raises.  Each subscript on a record without the key raises
\* KeyError, in the order the code reads them; a division by a parent field of
\* view of 0 raises ZeroDivisionError.
box_try(parent_metadata, child_metadata) ==
    IF "sample_position_x" \notin DOMAIN parent_metadata
         \/ "sample_position_x" \notin DOMAIN child_metadata
    THEN [exception |-> "", value |-> None]
    ELSE IF "sample_position_y" \notin DOMAIN parent_metadata
         \/ "sample_position_y" \notin DOMAIN child_metadata
    THEN [exception |-> "KeyError", value |-> None]
    ELSE IF "field_of_view_width" \notin DOMAIN parent_metadata
         \/ "field_of_view_width" \notin DOMAIN child_metadata
    THEN [exception |-> "", value |-> None]
    ELSE IF "field_of_view_height" \notin DOMAIN parent_metadata
         \/ "field_of_view_height" \notin DOMAIN child_metadata
    THEN [exception |-> "KeyError", value |-> None]
    ELSE
      LET parent_x == parent_metadata["sample_position_x"]
          parent_y == parent_metadata["sample_position_y"]
          child_x == child_metadata["sample_position_x"]
          child_y == child_metadata["sample_position_y"]
          parent_fov_w == parent_metadata["field_of_view_width"]
          parent_fov_h == parent_metadata["field_of_view_height"]
          child_fov_w == child_metadata["field_of_view_width"]
          child_fov_h == child_metadata["field_of_view_height"]
          \* twice the numerators of rel_left, rel_right, rel_top, rel_bottom
          rel_left2 == 2 * child_x - child_fov_w - 2 * parent_x
          rel_right2 == 2 * child_x + child_fov_w - 2 * parent_x
          rel_top2 == -(2 * child_y + child_fov_h - 2 * parent_y)
          rel_bottom2 == -(2 * child_y - child_fov_h - 2 * parent_y)
      IN  IF parent_fov_w = 0 \/ parent_fov_h = 0
          THEN [exception |-> "ZeroDivisionError", value |-> None]
          ELSE [exception |-> "",
                value |-> <<Clamp(HalfPlus(rel_left2, parent_fov_w)),
                            Clamp(HalfPlus(rel_top2, parent_fov_h)),
                            Clamp(HalfPlus(rel_right2, parent_fov_w)),
                            Clamp(HalfPlus(rel_bottom2, parent_fov_h))>>]

\* The except clause catching ZeroDivisionError only.
box_except_ZeroDivisionError_only(tried) ==
    IF tried.exception = "ZeroDivisionError" THEN None
    ELSE IF tried.exception # "" THEN Raised
    ELSE tried.value

\* The except clause catching KeyError only.
box_except_KeyError_only(tried) ==
    IF tried.exception = "KeyError" THEN None
    ELSE IF tried.exception # "" THEN Raised
    ELSE tried.value

\* "except Exception: return None" around the try block.
box_except(tried) == IF tried.exception # "" THEN None ELSE tried.value

\* _calculate_bounding_box.
calculate_bounding_box(parent_metadata, child_metadata) ==
    box_except(box_try(parent_metadata, child_metadata))

\* --------------------------------------------------------- ImageCollection
\* A dict whose order the code never relies on is a function; bounding_boxes,
\* which to_dict iterates, keeps its insertion order.
FnSet(f, k, v) == [x \in DOMAIN f \cup {k} |-> IF x = k THEN v ELSE f[x]]

\* ImageCollection.__init__
ImageCollection(name, session_id, sample_id) ==
    [name |-> name, session_id |-> session_id, sample_id |-> sample_id,
     images |-> <<>>, metadata |-> <<>>, containment |-> <<>>,
     bounding_boxes |-> EmptyDict, colors |-> <<>>]

\* add_image assigning the list instead of appending to it.
add_image_replacing(self, image_path, metadata) ==
    IF image_path \notin Range(self.images)
    THEN [self EXCEPT !.images = <<image_path>>,
                      !.metadata = FnSet(self.metadata, image_path, metadata)]
    ELSE self

\* add_image recording the metadata also when the key is already held.
add_image_overwriting(self, image_path, metadata) ==
    IF image_path \notin Range(self.images)
    THEN [self EXCEPT !.images = Append(self.images, image_path),
                      !.metadata = FnSet(self.metadata, image_path, metadata)]
    ELSE [self EXCEPT !.metadata = FnSet(self.metadata, image_path, metadata)]

add_image(self, image_path, metadata) ==
    IF image_path \notin Range(self.images)
    THEN [self EXCEPT !.images = Append(self.images, image_path),
                      !.metadata = FnSet(self.metadata, image_path, metadata)]
    ELSE self

\* add_containment without the test "child_image not in self.containment[parent_image]".
add_containment_unchecked(self, parent_image, child_image, bbox) ==
    [self EXCEPT
        !.containment = FnSet(self.containment, parent_image,
                              Append(Get(self.containment, parent_image, <<>>), child_image)),
        !.bounding_boxes = DictSet(self.bounding_boxes, <<parent_image, child_image>>, bbox)]

\* add_containment recording the box also when the child is already listed.
add_containment_overwriting(self, parent_image, child_image, bbox) ==
    LET listed == Get(self.containment, parent_image, <<>>)
    IN  IF child_image \notin Range(listed)
        THEN [self EXCEPT
                !.containment = FnSet(self.containment, parent_image,
                                      Append(listed, child_image)),
                !.bounding_boxes = DictSet(self.bounding_boxes,
                                           <<parent_image, child_image>>, bbox)]
        ELSE [self EXCEPT
                !.bounding_boxes = DictSet(self.bounding_boxes,
                                           <<parent_image, child_image>>, bbox)]

add_containment(self, parent_image, child_image, bbox) ==
    LET listed == Get(self.containment, parent_image, <<>>)
    IN  IF child_image \notin Range(listed)
        THEN [self EXCEPT
                !.containment = FnSet(self.containment, parent_image,
                                      Append(listed, child_image)),
                !.bounding_boxes = DictSet(self.bounding_boxes,
                                           <<parent_image, child_image>>, bbox)]
        ELSE [self EXCEPT !.containment = FnSet(self.containment, parent_image, listed)]

\* The palette with its second colour equal to its first.
Palette_two_reds ==
    << <<255, 0, 0, 180>>,   <<255, 0, 0, 180>>,   <<0, 0, 255, 180>>,
       <<255, 255, 0, 180>>, <<255, 0, 255, 180>>, <<0, 255, 255, 180>>,
       <<255, 128, 0, 180>>, <<128, 0, 255, 180>>, <<0, 128, 0, 180>>,
       <<128, 128, 255, 180>> >>

\* The palette of assign_colors, as the RGBA tuples it stores.
Palette ==
    << <<255, 0, 0, 180>>,   <<0, 255, 0, 180>>,   <<0, 0, 255, 180>>,
       <<255, 255, 0, 180>>, <<255, 0, 255, 180>>, <<0, 255, 255, 180>>,
       <<255, 128, 0, 180>>, <<128, 0, 255, 180>>, <<0, 128, 0, 180>>,
       <<128, 128, 255, 180>> >>

\* Iterating a Python set of str visits it in an order fixed by the process's
\* string hashing; hash_order is that order, a sequence holding every key once.
SetIter(S, hash_order) ==
    SelectSeq2(hash_order, S)

\* The enumerate loop of assign_colors over the children in the order visit.
RECURSIVE color_loop(_, _, _)
color_loop(visit, i, colors) ==
    IF i > Len(visit) THEN colors
    ELSE color_loop(visit, i + 1,
                    FnSet(colors, visit[i], Palette[((i - 1) % Len(Palette)) + 1]))

\* high_mag_images of assign_colors.
HighMagImages(self) ==
    UNION {Range(self.containment[p]) : p \in DOMAIN self.containment}

assign_colors(self, hash_order) ==
    [self EXCEPT !.colors = color_loop(SetIter(HighMagImages(self), hash_order), 1, self.colors)]

\* f"{parent}|{child}"
PairKey(parent, child) == parent \o <<"|">> \o child

\* str.split("|"): the pieces between the separators, from position i on with
\* the piece cur under construction.
RECURSIVE split_loop(_, _, _)
split_loop(str, i, cur) ==
    IF i > Len(str) THEN <<cur>>
    ELSE IF str[i] = "|" THEN <<cur>> \o split_loop(str, i + 1, <<>>)
    ELSE split_loop(str, i + 1, Append(cur, str[i]))

\* str.split("|", 1): a split at the first separator only.
Split_at_first(str) ==
    IF \E i \in 1..Len(str) : str[i] = "|"
    THEN LET i == CHOOSE i \in 1..Len(str) : str[i] = "|" /\ \A j \in 1..(i - 1) : str[j] # "|"
         IN  <<SubSeq(str, 1, i - 1), SubSeq(str, i + 1, Len(str))>>
    ELSE <<str>>

Split(str) == split_loop(str, 1, <<>>)

\* The dict comprehension of to_dict: a later pair overwrites an earlier one
\* with the same string.
RECURSIVE pair_keys_loop(_, _, _)
pair_keys_loop(bounding_boxes, i, out) ==
    IF i > Len(bounding_boxes.order) THEN out
    ELSE pair_keys_loop(bounding_boxes, i + 1,
                        DictSet(out,
                                PairKey(bounding_boxes.order[i][1], bounding_boxes.order[i][2]),
                                bounding_boxes.rec[bounding_boxes.order[i]]))

to_dict(self) ==
    [name |-> self.name, session_id |-> self.session_id, sample_id |-> self.sample_id,
     images |-> self.images, metadata |-> self.metadata, containment |-> self.containment,
     bounding_boxes |-> pair_keys_loop(self.bounding_boxes, 1, EmptyDict),
     colors |-> self.colors]

\* The loop of from_dict over data["bounding_boxes"].items(); "parent, child =
\* key.split("|")" raises ValueError unless the split has exactly two pieces.
RECURSIVE unpack_loop(_, _, _)
unpack_loop(boxes, i, out) ==
    IF i > Len(boxes.order) THEN [raised |-> FALSE, value |-> out]
    ELSE IF Len(Split(boxes.order[i])) # 2 THEN [raised |-> TRUE, value |-> EmptyDict]
    ELSE unpack_loop(boxes, i + 1,
                     DictSet(out, <<Split(boxes.order[i])[1], Split(boxes.order[i])[2]>>,
                             boxes.rec[boxes.order[i]]))

\* from_dict with the pairs already unpacked: the collection, or the exception.
restore(data, unpacked) ==
    IF unpacked.raised THEN [raised |-> TRUE, value |-> <<>>]
    ELSE [raised |-> FALSE,
          value |-> [ImageCollection(data.name, data.session_id, data.sample_id) EXCEPT
                        !.images = data.images,
                        !.metadata = data.metadata,
                        !.containment = data.containment,
                        !.bounding_boxes = unpacked.value,
                        !.colors = data.colors]]

\* from_dict storing the pair as (child, parent).
from_dict_swapped(data) ==
    restore(data,
            LET u == unpack_loop(data.bounding_boxes, 1, EmptyDict)
                RECURSIVE swap(_, _)
                swap(i, out) ==
                    IF i > Len(u.value.order) THEN out
                    ELSE swap(i + 1, DictSet(out, <<u.value.order[i][2], u.value.order[i][1]>>,
                                             u.value.rec[u.value.order[i]]))
            IN  IF u.raised THEN u ELSE [raised |-> FALSE, value |-> swap(1, EmptyDict)])

from_dict(data) == restore(data, unpack_loop(data.bounding_boxes, 1, EmptyDict))

\* ------------------------------------------------------- CollectionManager
create_collection(name, session_id, sample_id) ==
    ImageCollection(name, session_id, sample_id)

\* save_collection: json.dump(collection.to_dict(), f).  The JSON text of a dict
\* of strings, numbers and lists reads back as the same dict, a tuple as a list.
save_collection(collection) == [exists |-> TRUE, data |-> to_dict(collection)]

\* "except Exception: return None" of load_collection around from_dict.
load_except(tried) ==
    IF tried.raised THEN [outcome |-> "None", value |-> <<>>]
    ELSE [outcome |-> "collection", value |-> tried.value]

\* load_collection on a path whose file, if it exists, holds the dict f.data.
load_collection(f) ==
    IF ~f.exists THEN [outcome |-> "None", value |-> <<>>]
    ELSE load_except(from_dict(f.data))

\* str.replace(old, new) of single characters.
Replace(s, old, new) == [i \in 1..Len(s) |-> IF s[i] = old THEN new ELSE s[i]]

\* CollectionManager().storage_dir
StorageDir == "collections"

\* save_collection: the path of the file it writes.
file_path(collection) ==
    <<StorageDir, "/", collection.session_id, "_", collection.sample_id, "_">>
        \o Replace(collection.name, " ", "_") \o <<".json">>

\* "for collection in collections: save_collection(collection)" from position i
\* up to position n, on the files of the storage directory.
RECURSIVE save_collections(_, _, _, _)
save_collections(saving, i, n, files) ==
    IF i > n THEN files
    ELSE save_collections(saving, i + 1, n,
            DictSet(files, file_path(saving[i]), save_collection(saving[i])))

\* str(n) for the collection counters that occur.
Digits == <<"0", "1", "2", "3", "4", "5", "6", "7", "8", "9">>

Str(n) == IF n < 10 THEN <<Digits[n + 1]>> ELSE <<Digits[(n \div 10) + 1], Digits[(n % 10) + 1]>>

\* os.path.basename: what follows the last "/".
RECURSIVE basename(_)
basename(path) ==
    IF path = <<>> THEN <<>>
    ELSE IF \E i \in 1..Len(path) : path[i] = "/"
         THEN basename(Tail(path))
         ELSE path

\* reversed() returning the list in its own order.
Reversed_not(s) == s

\* reversed(s)
Reversed(s) == [i \in 1..Len(s) |-> s[Len(s) + 1 - i]]

\* ContainingImages without the test "image_path in children".
ContainingImages_unfiltered(containment_map, image_path) == containment_map.order

\* containing_images of one seed: the parents that list it, in dict order.
ContainingImages(containment_map, image_path) ==
    LET Test(parent_img) == image_path \in Range(containment_map.rec[parent_img])
    IN  SelectSeq2(containment_map.order, {k \in Range(containment_map.order) : Test(k)})

\* AllImages without the children of the containing images.
AllImages_without_siblings(containment_map, image_path, containing_images) ==
    {image_path} \cup Range(containing_images)

\* all_images of one seed.
AllImages(containment_map, image_path, containing_images) ==
    {image_path} \cup Range(containing_images)
      \cup UNION {Range(containment_map.rec[parent]) :
                    parent \in Range(containing_images) \cap Range(containment_map.order)}

\* for img in all_images: collection.add_image(img, image_metadata[img])
RECURSIVE add_images_loop(_, _, _, _)
add_images_loop(image_metadata, visit, i, collection) ==
    IF i > Len(visit) THEN collection
    ELSE add_images_loop(image_metadata, visit, i + 1,
                         add_image(collection, visit[i], image_metadata.rec[visit[i]]))

\* collection.add_containment(parent, child, bbox) if bbox
add_edge(collection, parent, child, bbox) ==
    IF bbox # None THEN add_containment(collection, parent, child, bbox) ELSE collection

\* for child in containment_map[parent]: the edges of one parent, from child j on.
RECURSIVE add_children_loop(_, _, _, _, _, _)
add_children_loop(image_metadata, all_images, parent, children, j, collection) ==
    IF j > Len(children) THEN collection
    ELSE add_children_loop(image_metadata, all_images, parent, children, j + 1,
            IF children[j] \in all_images
            THEN add_edge(collection, parent, children[j],
                          calculate_bounding_box(image_metadata.rec[parent],
                                                 image_metadata.rec[children[j]]))
            ELSE collection)

\* for parent in containing_images: the edges of the seed's parents.
RECURSIVE add_parents_loop(_, _, _, _, _, _)
add_parents_loop(image_metadata, containment_map, all_images, containing_images, i, collection) ==
    IF i > Len(containing_images) THEN collection
    ELSE add_parents_loop(image_metadata, containment_map, all_images, containing_images, i + 1,
            IF containing_images[i] \in Range(containment_map.order)
            THEN add_children_loop(image_metadata, all_images, containing_images[i],
                                   containment_map.rec[containing_images[i]], 1, collection)
            ELSE collection)

\* SeedCollection registering the edges of every parent of the map instead of
\* the seed's containing images.
SeedCollection_all_parents(name, session_id, sample_id, image_metadata, containment_map, containing_images, all_images, hash_order) ==
    assign_colors(
        add_parents_loop(image_metadata, containment_map, all_images, containment_map.order, 1,
            add_images_loop(image_metadata, SetIter(all_images, hash_order), 1,
                            create_collection(name, session_id, sample_id))),
        hash_order)

\* The collection analyze_images builds for one seed with the set all_images.
SeedCollection(name, session_id, sample_id, image_metadata, containment_map, containing_images, all_images, hash_order) ==
    assign_colors(
        add_parents_loop(image_metadata, containment_map, all_images, containing_images, 1,
            add_images_loop(image_metadata, SetIter(all_images, hash_order), 1,
                            create_collection(name, session_id, sample_id))),
        hash_order)

\* take_seed without "used_images.add(img)".
take_seed_not_marking(session_id, sample_id, image_metadata, containment_map, hash_order, state, image_path, containing_images) ==
    IF image_path \in state.used_images \/ containing_images = <<>>
    THEN state
    ELSE [collections |->
            Append(state.collections,
                   SeedCollection(<<"Collection_">> \o Str(Len(state.collections) + 1),
                                  session_id, sample_id, image_metadata, containment_map,
                                  containing_images,
                                  AllImages(containment_map, image_path, containing_images),
                                  hash_order)),
          used_images |-> state.used_images,
          seeds |-> Append(state.seeds, image_path)]

\* One seed of the first loop: [collections, used_images, seeds] after image_path.
take_seed(session_id, sample_id, image_metadata, containment_map, hash_order, state, image_path, containing_images) ==
    IF image_path \in state.used_images \/ containing_images = <<>>
    THEN state
    ELSE [collections |->
            Append(state.collections,
                   SeedCollection(<<"Collection_">> \o Str(Len(state.collections) + 1),
                                  session_id, sample_id, image_metadata, containment_map,
                                  containing_images,
                                  AllImages(containment_map, image_path, containing_images),
                                  hash_order)),
          used_images |->
            state.used_images \cup AllImages(containment_map, image_path, containing_images),
          seeds |-> Append(state.seeds, image_path)]

\* The first loop of analyze_images, over reversed(sorted_images) from position i on.
RECURSIVE group_loop(_, _, _, _, _, _, _, _)
group_loop(session_id, sample_id, image_metadata, containment_map, hash_order, descending, i, state) ==
    IF i > Len(descending) THEN state
    ELSE group_loop(session_id, sample_id, image_metadata, containment_map, hash_order,
                    descending, i + 1,
                    take_seed(session_id, sample_id, image_metadata, containment_map,
                              hash_order, state, descending[i],
                              ContainingImages(containment_map, descending[i])))

\* The second loop of analyze_images: one collection per image left unused.
RECURSIVE singles_loop(_, _, _, _, _, _, _)
singles_loop(session_id, sample_id, image_metadata, sorted, used_images, i, collections) ==
    IF i > Len(sorted) THEN collections
    ELSE singles_loop(session_id, sample_id, image_metadata, sorted, used_images, i + 1,
            IF sorted[i] \notin used_images
            THEN Append(collections,
                        add_image(create_collection(<<"Single_">> \o basename(sorted[i]),
                                                    session_id, sample_id),
                                  sorted[i], image_metadata.rec[sorted[i]]))
            ELSE collections)

\* finish_run without the second loop of analyze_images.
finish_run_without_singles(session_id, sample_id, image_metadata, sorted, containment_map, grouped) ==
    [sorted_images |-> sorted,
     containment_map |-> containment_map,
     seeds |-> grouped.seeds,
     collections |-> grouped.collections]

\* The locals of analyze_images at its return, given sorted_images and the state
\* the first loop left.
finish_run(session_id, sample_id, image_metadata, sorted, containment_map, grouped) ==
    [sorted_images |-> sorted,
     containment_map |-> containment_map,
     seeds |-> grouped.seeds,
     collections |-> singles_loop(session_id, sample_id, image_metadata, sorted,
                                  grouped.used_images, 1, grouped.collections)]

group_and_finish(session_id, sample_id, image_metadata, sorted, containment_map, hash_order) ==
    finish_run(session_id, sample_id, image_metadata, sorted, containment_map,
               group_loop(session_id, sample_id, image_metadata, containment_map, hash_order,
                          Reversed(sorted), 1,
                          [collections |-> <<>>, used_images |-> {}, seeds |-> <<>>]))

\* analyze_images_run returning one empty collection for an empty map.
analyze_images_run_one_for_empty(session_id, sample_id, image_metadata, hash_order) ==
    IF image_metadata.order = <<>>
    THEN [sorted_images |-> <<>>, containment_map |-> EmptyDict, seeds |-> <<>>,
          collections |-> <<create_collection(<<"Collection_", "1">>, session_id, sample_id)>>]
    ELSE group_and_finish(session_id, sample_id, image_metadata,
                          sorted_images(image_metadata),
                          analyze_containment(image_metadata), hash_order)

\* analyze_images with its locals at the return: the sorted keys, the containment
\* map, the seeds and the list of collections.
analyze_images_run(session_id, sample_id, image_metadata, hash_order) ==
    IF image_metadata.order = <<>>
    THEN [sorted_images |-> <<>>, containment_map |-> EmptyDict,
          seeds |-> <<>>, collections |-> <<>>]
    ELSE group_and_finish(session_id, sample_id, image_metadata,
                          sorted_images(image_metadata),
                          analyze_containment(image_metadata), hash_order)

\* analyze_images: the list of collections.
analyze_images(session_id, sample_id, image_metadata, hash_order) ==
    analyze_images_run(session_id, sample_id, image_metadata, hash_order).collections

\* ------------------------------------------------------------------ inputs
\* Image keys are paths, sequences of characters.
KeyPool ==
    << <<"f", "/", "a">>, <<"f", "/", "b">>, <<"f", "/", "c">>, <<"f", "/", "d">>,
       <<"f", "/", "e">>, <<"f", "/", "g">>, <<"f", "/", "h">> >>

Keys(n) == SubSeq(KeyPool, 1, n)

SessionId == "SEM1-123"

SampleId == "TCL12345"

FovValues == {-1, 0, 1, MaxFov}

Restrict(r, D) == [k \in D |-> r[k]]

FullRecords ==
    {[field_of_view_width |-> w, field_of_view_height |-> h,
      sample_position_x |-> x, sample_position_y |-> y] @@ ("Mag(pol)" :> m) :
        w \in FovValues, h \in FovValues, x \in 0..MaxPos, y \in 0..MaxPos, m \in 1..MaxMag}

\* A general record: every field, or all but "Mag(pol)", or all but one geometry
\* field, or both.
GeneralRecords ==
    {Restrict(r, DOMAIN r \ (geo \cup mag)) :
        r \in FullRecords,
        geo \in {{}} \cup {{k} : k \in GeometryFields},
        mag \in {{}, {"Mag(pol)"}}}

\* The record extract_metadata_from_tiff builds for a square frame of width w
\* centred at (x, 0).
ExtractedRecord(w, x) ==
    [field_of_view_width |-> w, field_of_view_height |-> w,
     sample_position_x |-> x, sample_position_y |-> 0]
      @@ ("Mag(pol)" :> (MagNumerator \div w))

ExtractedRecords == {ExtractedRecord(w, x) : w \in {1, MaxFov}, x \in 0..MaxRowPos}

\* An extracted record that lost one geometry field.
DamagedRecords ==
    {Restrict(ExtractedRecord(1, 1), DOMAIN ExtractedRecord(1, 1) \ {k}) : k \in GeometryFields}

\* Extracted records of three widths, each MaxFov times the one before.
NestedRecords ==
    {ExtractedRecord(w, x) : w \in {1, MaxFov, MaxFov * MaxFov}, x \in 0..MaxRowPos}

\* The metadata map holding the first n keys of the pool with the records f.
MetadataMap(n, f) == [order |-> Keys(n), rec |-> f]

\* The maps the model draws from: up to MaxImages general records, up to
\* MaxDamaged extracted or damaged records, up to MaxExtracted extracted records,
\* or up to MaxNested extracted records of three widths.
IsInputMap(m) ==
    \/ \E n \in 0..MaxImages : \E f \in [Range(Keys(n)) -> GeneralRecords] :
            m = MetadataMap(n, f)
    \/ \E n \in 0..MaxDamaged :
         \E f \in [Range(Keys(n)) -> ExtractedRecords \cup DamagedRecords] :
            m = MetadataMap(n, f)
    \/ \E n \in 0..MaxExtracted : \E f \in [Range(Keys(n)) -> ExtractedRecords] :
            m = MetadataMap(n, f)
    \/ \E n \in 0..MaxNested : \E f \in [Range(Keys(n)) -> NestedRecords] :
            m = MetadataMap(n, f)

\* The records the bounding-box calculator is applied to.
BoxRecords == {r \in GeneralRecords : "Mag(pol)" \in DOMAIN r}

\* The iteration orders of a set of keys the model draws from.
HashOrders(order) == {order, Reversed(order)}

\* The values of the variables a specification does not use.
NoCall == [op |-> "", args |-> <<>>, before |-> <<>>]

\* A path at which os.path.exists is false.
MissingFile == [exists |-> FALSE, data |-> <<>>]

NotLoaded == [outcome |-> "", value |-> <<>>]

NoWorkflow ==
    [workflow_type |-> "", kwargs |-> {}, main |-> "", thread |-> "", executed |-> 0,
     outcome |-> <<>>, e |-> "", callbacks |-> <<>>]

NoController == [current_collections |-> <<>>, current_collection |-> None, runs |-> 0, raised |-> ""]

\* ------------------------------------------------------------------- state
VARIABLES
    image_metadata,     \* the metadata map handed to analyze_images
    pc,                 \* the position of the run: "input", "analyzed", "building", ...
    sorted,             \* analyze_images' local sorted_images
    containment_map,    \* analyze_images' local containment_map
    collections,        \* the list analyze_images returned
    seeds,              \* the seed of each multi-image collection, in creation order
    parent_metadata,    \* the arguments of _calculate_bounding_box
    child_metadata,
    bbox,               \* what _calculate_bounding_box returned
    collection,         \* an ImageCollection being built by its methods
    restored,           \* what from_dict(collection.to_dict()) gave
    call,               \* the last method called on collection: its name, its
                        \* arguments and the collection before the call
    file,               \* the JSON file save_collection wrote or load_collection read
    loaded,             \* what load_collection returned
    workflow,           \* a call of execute_workflow_async and its thread
    controller,         \* the fields of a ScaleGridController
    storage             \* the files of the storage directory, by path

vars == <<image_metadata, pc, sorted, containment_map, collections, seeds,
          parent_metadata, child_metadata, bbox, collection, restored, call, file, loaded,
                   workflow, controller, storage>>

\* ------------------------------------------- grouping: analyze_images runs
Init ==
    /\ IsInputMap(image_metadata)
    /\ pc = "input"
    /\ sorted = <<>>
    /\ containment_map = EmptyDict
    /\ collections = <<>>
    /\ seeds = <<>>
    /\ parent_metadata = <<>>
    /\ child_metadata = <<>>
    /\ bbox = None
    /\ collection = <<>>
    /\ restored = <<>>
    /\ call = NoCall
    /\ file = MissingFile
    /\ loaded = NotLoaded
    /\ workflow = NoWorkflow
    /\ controller = NoController
    /\ storage = EmptyDict

\* CollectionManager.analyze_images on the metadata map.
AnalyzeImages ==
    /\ pc = "input"
    /\ \E hash_order \in HashOrders(image_metadata.order) :
         \E run \in {analyze_images_run(SessionId, SampleId, image_metadata, hash_order)} :
             /\ collections' = run.collections
             /\ containment_map' = run.containment_map
             /\ sorted' = run.sorted_images
             /\ seeds' = run.seeds
    /\ pc' = "analyzed"
    /\ UNCHANGED <<image_metadata, parent_metadata, child_metadata, bbox,
                   collection, restored, call, file, loaded,
                   workflow, controller, storage>>

Next == AnalyzeImages

Spec == Init /\ [][Next]_vars

\* ------------- geometry: _analyze_containment and _calculate_bounding_box
\* ------------- on a pair of records
\* The metadata map holding the parent record under the first key of the pool
\* and the child record under the second.
PairMap(parent, child) ==
    MetadataMap(2, (Keys(2)[1] :> parent) @@ (Keys(2)[2] :> child))

InitBox ==
    /\ parent_metadata \in BoxRecords
    /\ child_metadata \in BoxRecords
    /\ image_metadata = PairMap(parent_metadata, child_metadata)
    /\ pc = "input"
    /\ sorted = <<>>
    /\ containment_map = EmptyDict
    /\ collections = <<>>
    /\ seeds = <<>>
    /\ bbox = None
    /\ collection = <<>>
    /\ restored = <<>>
    /\ call = NoCall
    /\ file = MissingFile
    /\ loaded = NotLoaded
    /\ workflow = NoWorkflow
    /\ controller = NoController
    /\ storage = EmptyDict

\* CollectionManager._analyze_containment on the map of the two records.
AnalyzeContainment ==
    /\ pc = "input"
    /\ sorted' = sorted_images(image_metadata)
    /\ containment_map' = analyze_containment(image_metadata)
    /\ pc' = "contained"
    /\ UNCHANGED <<image_metadata, collections, seeds, parent_metadata, child_metadata,
                   bbox, collection, restored, call, file, loaded,
                   workflow, controller, storage>>

\* CollectionManager._calculate_bounding_box on the two records.
CalculateBoundingBox ==
    /\ pc = "contained"
    /\ bbox' = calculate_bounding_box(parent_metadata, child_metadata)
    /\ pc' = "boxed"
    /\ UNCHANGED <<image_metadata, sorted, containment_map, collections, seeds,
                   parent_metadata, child_metadata, collection, restored, call, file, loaded,
                   workflow, controller, storage>>

NextBox == AnalyzeContainment \/ CalculateBoundingBox

SpecBox == InitBox /\ [][NextBox]_vars

\* ------------------ entity: an ImageCollection built by its methods, then
\* ------------------ serialised and read back
CollKeys == {<<"a">>, <<"b">>, <<"a", "|">>}

CollRecords == {ExtractedRecord(1, 0), ExtractedRecord(MaxFov, 1)}

CollBoxes ==
    { << <<1, 10>>, <<2, 10>>, <<3, 10>>, <<4, 10>> >>,
      << <<0, 2>>, <<0, 2>>, <<2, 2>>, <<2, 2>> >> }

RECURSIVE Perms(_)
Perms(S) ==
    IF S = {} THEN {<<>>}
    ELSE UNION {{<<k>> \o q : q \in Perms(S \ {k})} : k \in S}

\* Files not written by save_collection: the dict of f with its bounding boxes
\* under keys without a separator and with two separators.
ForeignKeys == {<<"a", "b">>, <<"a", "|", "b", "|", "b">>}

ForeignFiles(f) ==
    {[exists |-> TRUE,
      data |-> [f.data EXCEPT !.bounding_boxes = DictSet(EmptyDict, key, box)]] :
        key \in ForeignKeys, box \in CollBoxes}

InitColl ==
    /\ image_metadata = EmptyDict
    /\ pc = "building"
    /\ sorted = <<>>
    /\ containment_map = EmptyDict
    /\ collections = <<>>
    /\ seeds = <<>>
    /\ parent_metadata = <<>>
    /\ child_metadata = <<>>
    /\ bbox = None
    /\ collection = create_collection(<<"Collection_", "1">>, SessionId, SampleId)
    /\ restored = [raised |-> FALSE, value |-> <<>>]
    /\ call = NoCall
    /\ file = MissingFile
    /\ loaded = NotLoaded
    /\ workflow = NoWorkflow
    /\ controller = NoController
    /\ storage = EmptyDict

\* ImageCollection.add_image
AddImage ==
    /\ pc = "building"
    /\ Len(collection.images) < MaxCollImages
    /\ \E image_path \in CollKeys, metadata \in CollRecords :
         /\ collection' = add_image(collection, image_path, metadata)
         /\ call' = [op |-> "add_image", args |-> <<image_path, metadata>>,
                     before |-> collection]
    /\ UNCHANGED <<image_metadata, pc, sorted, containment_map, collections, seeds,
                   parent_metadata, child_metadata, bbox, restored, file, loaded,
                   workflow, controller, storage>>

\* ImageCollection.add_containment
AddContainment ==
    /\ pc = "building"
    /\ Len(collection.bounding_boxes.order) < MaxEdges
    /\ \E parent_image \in CollKeys, child_image \in CollKeys, box \in CollBoxes :
         /\ collection' = add_containment(collection, parent_image, child_image, box)
         /\ call' = [op |-> "add_containment", args |-> <<parent_image, child_image, box>>,
                     before |-> collection]
    /\ UNCHANGED <<image_metadata, pc, sorted, containment_map, collections, seeds,
                   parent_metadata, child_metadata, bbox, restored, file, loaded,
                   workflow, controller, storage>>

\* ImageCollection.assign_colors; the argument recorded is the order in which
\* the loop visited the set high_mag_images.
AssignColors ==
    /\ pc = "building"
    /\ \E hash_order \in Perms(CollKeys) :
         /\ collection' = assign_colors(collection, hash_order)
         /\ call' = [op |-> "assign_colors",
                     args |-> <<SetIter(HighMagImages(collection), hash_order)>>,
                     before |-> collection]
    /\ UNCHANGED <<image_metadata, pc, sorted, containment_map, collections, seeds,
                   parent_metadata, child_metadata, bbox, restored, file, loaded,
                   workflow, controller, storage>>

\* ImageCollection.from_dict(collection.to_dict())
RoundTrip ==
    /\ pc = "building"
    /\ restored' = from_dict(to_dict(collection))
    /\ pc' = "restored"
    /\ UNCHANGED <<image_metadata, sorted, containment_map, collections, seeds,
                   parent_metadata, child_metadata, bbox, collection, call, file, loaded,
                   workflow, controller, storage>>

\* CollectionManager.save_collection: the file holds what to_dict returned.
SaveCollection ==
    /\ pc = "building"
    /\ file' = save_collection(collection)
    /\ pc' = "saved"
    /\ UNCHANGED <<image_metadata, sorted, containment_map, collections, seeds,
                   parent_metadata, child_metadata, bbox, collection, restored, call, loaded,
                   workflow, controller, storage>>

\* CollectionManager.load_collection on the path just written, on a path that
\* does not exist, or on a file of another origin.
LoadCollection ==
    /\ pc = "saved"
    /\ \E f \in {file, MissingFile} \cup ForeignFiles(file) :
         /\ file' = f
         /\ loaded' = load_collection(f)
    /\ pc' = "loaded"
    /\ UNCHANGED <<image_metadata, sorted, containment_map, collections, seeds,
                   parent_metadata, child_metadata, bbox, collection, restored, call,
                   workflow, controller, storage>>

NextColl ==
    AddImage \/ AddContainment \/ AssignColors \/ RoundTrip \/ SaveCollection \/ LoadCollection

SpecColl == InitColl /\ [][NextColl]_vars

\* ------------------ palette: one parent given child after child, then
\* ------------------ assign_colors
ParentKey == <<"f", "/", "p">>

ChildKey(i) == <<"f", "/">> \o Str(i)

ChildKeys(n) == [i \in 1..n |-> ChildKey(i)]

Rotated(s, k) == [i \in 1..Len(s) |-> s[((i - 1 + k) % Len(s)) + 1]]

\* The iteration orders of the set of children drawn: the rotations of the
\* order of insertion, forwards and backwards.
ChildOrders(s) ==
    {s, Reversed(s)} \cup {Rotated(s, k) : k \in 1..(Len(s) - 1)}
                     \cup {Reversed(Rotated(s, k)) : k \in 1..(Len(s) - 1)}

InitPalette ==
    /\ image_metadata = EmptyDict
    /\ pc = "building"
    /\ sorted = <<>>
    /\ containment_map = EmptyDict
    /\ collections = <<>>
    /\ seeds = <<>>
    /\ parent_metadata = <<>>
    /\ child_metadata = <<>>
    /\ bbox = None
    /\ collection = create_collection(<<"Collection_", "1">>, SessionId, SampleId)
    /\ restored = [raised |-> FALSE, value |-> <<>>]
    /\ call = NoCall
    /\ file = MissingFile
    /\ loaded = NotLoaded
    /\ workflow = NoWorkflow
    /\ controller = NoController
    /\ storage = EmptyDict

\* ImageCollection.add_containment of the next child under the parent.
AddChild ==
    /\ pc = "building"
    /\ Len(collection.bounding_boxes.order) < MaxChildren
    /\ \E child_image \in {ChildKey(Len(collection.bounding_boxes.order) + 1)}, box \in CollBoxes :
         /\ collection' = add_containment(collection, ParentKey, child_image, box)
         /\ call' = [op |-> "add_containment", args |-> <<ParentKey, child_image, box>>,
                     before |-> collection]
    /\ UNCHANGED <<image_metadata, pc, sorted, containment_map, collections, seeds,
                   parent_metadata, child_metadata, bbox, restored, file, loaded,
                   workflow, controller, storage>>

\* ImageCollection.assign_colors on the collection with its children.
AssignColorsOfChildren ==
    /\ pc = "building"
    /\ \E hash_order \in ChildOrders(ChildKeys(Len(collection.bounding_boxes.order))) :
         /\ collection' = assign_colors(collection, hash_order)
         /\ call' = [op |-> "assign_colors",
                     args |-> <<SetIter(HighMagImages(collection), hash_order)>>,
                     before |-> collection]
    /\ pc' = "coloured"
    /\ UNCHANGED <<image_metadata, sorted, containment_map, collections, seeds,
                   parent_metadata, child_metadata, bbox, restored, file, loaded,
                   workflow, controller, storage>>

NextPalette == AddChild \/ AssignColorsOfChildren

SpecPalette == InitPalette /\ [][NextPalette]_vars

\* ------------- workflows: WorkflowController.execute_workflow_async and
\* ------------- the thread it starts
WorkflowTypes == {"SCALE_GRID", "COMPARE_GRID", "QUALITY_ASSESSMENT"}

\* Workflow.get_required_inputs of the workflow registered for the type.
get_required_inputs(workflow_type) ==
    CASE workflow_type = "SCALE_GRID" -> <<"folder_path">>
      [] workflow_type = "COMPARE_GRID" ->
            <<"folder_paths", "magnification_target", "tolerance_percent">>
      [] workflow_type = "QUALITY_ASSESSMENT" -> <<"folder_path", "metric_weights">>

\* The names a caller passes as keyword arguments.
InputNames ==
    {"folder_path", "folder_paths", "magnification_target", "tolerance_percent",
     "metric_weights", "sample_id"}

\* What workflow.execute does: it returns a result dict or raises an Exception.
ExecuteOutcomes ==
    {[kind |-> "returned", value |-> status] : status \in {"success", "need_processing", "error"}}
        \cup {[kind |-> "raised", value |-> message] : message \in {"no such folder", ""}}

\* What the caller's callback does when it is called: it returns or raises an
\* Exception with this message.
CallbackOutcomes ==
    {[kind |-> "returned", value |-> ""], [kind |-> "raised", value |-> "callback failed"]}

\* The loop "for input_name in required_inputs: if input_name not in kwargs"
\* from position i: the name the ValueError is raised for, as <<name>>, or <<>>.
RECURSIVE missing_input(_, _, _)
missing_input(required_inputs, kwargs, i) ==
    IF i > Len(required_inputs) THEN <<>>
    ELSE IF required_inputs[i] \notin kwargs THEN <<required_inputs[i]>>
    ELSE missing_input(required_inputs, kwargs, i + 1)

\* execute_workflow_async up to its return: ValueError on a missing input,
\* otherwise the started thread.
start_or_raise(workflow_type, kwargs, missing) ==
    IF missing # <<>>
    THEN [workflow_type |-> workflow_type, kwargs |-> kwargs, main |-> "ValueError",
          thread |-> "", executed |-> 0, outcome |-> <<>>, e |-> "", callbacks |-> <<>>]
    ELSE [workflow_type |-> workflow_type, kwargs |-> kwargs, main |-> "returned",
          thread |-> "started", executed |-> 0, outcome |-> <<>>, e |-> "", callbacks |-> <<>>]

\* The thread after a call of the callback made inside the try block: an
\* Exception of the callback is caught by "except Exception as e".
after_callback_in_try(w, done) ==
    IF done.kind = "raised"
    THEN [w EXCEPT !.thread = "excepted", !.e = done.value]
    ELSE [w EXCEPT !.thread = "finished"]

InitAsync ==
    /\ image_metadata = EmptyDict
    /\ pc = "idle"
    /\ sorted = <<>>
    /\ containment_map = EmptyDict
    /\ collections = <<>>
    /\ seeds = <<>>
    /\ parent_metadata = <<>>
    /\ child_metadata = <<>>
    /\ bbox = None
    /\ collection = <<>>
    /\ restored = <<>>
    /\ call = NoCall
    /\ file = MissingFile
    /\ loaded = NotLoaded
    /\ workflow = NoWorkflow
    /\ controller = NoController
    /\ storage = EmptyDict

\* The caller's thread: execute_workflow_async(workflow_type, callback, **kwargs).
ExecuteWorkflowAsync ==
    /\ pc = "idle"
    /\ \E workflow_type \in WorkflowTypes, kwargs \in SUBSET InputNames :
         workflow' = start_or_raise(workflow_type, kwargs,
                        missing_input(get_required_inputs(workflow_type), kwargs, 1))
    /\ pc' = "called"
    /\ UNCHANGED <<image_metadata, sorted, containment_map, collections, seeds,
                   parent_metadata, child_metadata, bbox, collection, restored, call,
                   file, loaded, controller, storage>>

\* thread_func: result = workflow.execute(**kwargs)
ThreadExecute ==
    /\ workflow.thread = "started"
    /\ \E done \in ExecuteOutcomes :
         workflow' = [workflow EXCEPT !.executed = @ + 1, !.outcome = done,
                         !.e = IF done.kind = "raised" THEN done.value ELSE @,
                         !.thread = IF done.kind = "raised" THEN "excepted" ELSE "executed"]
    /\ UNCHANGED <<image_metadata, pc, sorted, containment_map, collections, seeds,
                   parent_metadata, child_metadata, bbox, collection, restored, call,
                   file, loaded, controller, storage>>

\* thread_func: callback(True, result), inside the try block.
CallbackTrue ==
    /\ workflow.thread = "executed"
    /\ \E done \in CallbackOutcomes :
         workflow' = after_callback_in_try(
                        [workflow EXCEPT !.callbacks = Append(@, <<TRUE, workflow.outcome.value>>)],
                        done)
    /\ UNCHANGED <<image_metadata, pc, sorted, containment_map, collections, seeds,
                   parent_metadata, child_metadata, bbox, collection, restored, call,
                   file, loaded, controller, storage>>

\* thread_func: except Exception as e: callback(False, str(e)).  An Exception
\* of this call of the callback ends the thread.
CallbackFalse ==
    /\ workflow.thread = "excepted"
    /\ \E done \in CallbackOutcomes :
         workflow' = [workflow EXCEPT !.callbacks = Append(@, <<FALSE, workflow.e>>),
                         !.thread = IF done.kind = "raised" THEN "died" ELSE "finished"]
    /\ UNCHANGED <<image_metadata, pc, sorted, containment_map, collections, seeds,
                   parent_metadata, child_metadata, bbox, collection, restored, call,
                   file, loaded, controller, storage>>

NextAsync == ExecuteWorkflowAsync \/ ThreadExecute \/ CallbackTrue \/ CallbackFalse

SpecAsync == InitAsync /\ [][NextAsync]_vars

\* ------------- storage: analyze_images, then save_collection on each
\* ------------- collection returned
\* Keys that differ in the folder only, or in a space against an underscore.
StoreKeyPool ==
    { <<"f", "/", "a", " ", "b">>, <<"f", "/", "a", "_", "b">>,
      <<"g", "/", "a", " ", "b">>, <<"f", "/", "c">> }

\* The sequences of up to n distinct elements of S.
InjectiveSeqs(S, n) ==
    UNION {{q \in [1..k -> S] : \A i, j \in 1..k : q[i] = q[j] => i = j} : k \in 0..n}

InitStore ==
    /\ \E order \in InjectiveSeqs(StoreKeyPool, MaxStored) :
         \E f \in [Range(order) -> ExtractedRecords] :
            image_metadata = [order |-> order, rec |-> f]
    /\ pc = "input"
    /\ sorted = <<>>
    /\ containment_map = EmptyDict
    /\ collections = <<>>
    /\ seeds = <<>>
    /\ parent_metadata = <<>>
    /\ child_metadata = <<>>
    /\ bbox = None
    /\ collection = <<>>
    /\ restored = <<>>
    /\ call = NoCall
    /\ file = MissingFile
    /\ loaded = NotLoaded
    /\ workflow = NoWorkflow
    /\ controller = NoController
    /\ storage = EmptyDict

\* save_collection on each collection analyze_images returned, in turn.
SaveCollections ==
    /\ pc = "analyzed"
    /\ storage' = save_collections(collections, 1, Len(collections), storage)
    /\ pc' = "stored"
    /\ UNCHANGED <<image_metadata, sorted, containment_map, collections, seeds,
                   parent_metadata, child_metadata, bbox, collection, restored, call,
                   file, loaded, workflow, controller>>

NextStore == AnalyzeImages \/ SaveCollections

SpecStore == InitStore /\ [][NextStore]_vars

\* ------------- controller: ScaleGridController's current_collections and
\* ------------- current_collection under its handlers
\* The metadata maps a folder gives.
ControllerRecords ==
    {ExtractedRecord(1, 0), ExtractedRecord(MaxFov, 0), ExtractedRecord(1, MaxRowPos)}

ControllerMaps ==
    UNION {{MetadataMap(n, f) : f \in [Range(Keys(n)) -> ControllerRecords]} : n \in 0..MaxShown}

\* The ImageCollection objects a run of analyze_images creates: ImageCollection
\* defines no __eq__, so two objects are equal when they are the same object.
NewObjects(found, run) == [i \in 1..Len(found) |-> [object |-> <<run, i>>, value |-> found[i]]]

Values(objects) == [i \in 1..Len(objects) |-> objects[i].value]

\* list.index(x) from position i: the position of the object, 0 for ValueError.
RECURSIVE index(_, _, _)
index(objects, x, i) ==
    IF i > Len(objects) THEN 0
    ELSE IF objects[i].object = x THEN i
    ELSE index(objects, x, i + 1)

\* process_folder_with_info from the assignment of current_collections on:
\* save_collection raises after `saved` collections, or every one is saved.
after_analysis(c, objects, saved) ==
    IF objects = <<>> THEN [c EXCEPT !.current_collections = objects]
    ELSE IF saved < Len(objects) THEN [c EXCEPT !.current_collections = objects]
    ELSE [c EXCEPT !.current_collections = objects, !.current_collection = objects[1].object]

on_collection_selected(c, collection_index) ==
    IF 0 <= collection_index /\ collection_index < Len(c.current_collections)
    THEN [c EXCEPT !.current_collection = c.current_collections[collection_index + 1].object]
    ELSE c

\* display_next_collection, current_idx being what list.index gave.
display_next_at(c, current_idx) ==
    IF current_idx = 0 THEN [c EXCEPT !.raised = "ValueError"]
    ELSE [c EXCEPT !.current_collection =
                        c.current_collections[(current_idx % Len(c.current_collections)) + 1].object]

display_next_collection(c) ==
    IF c.current_collections = <<>> \/ c.current_collection = None THEN c
    ELSE display_next_at(c, index(c.current_collections, c.current_collection, 1))

InitController ==
    /\ image_metadata = EmptyDict
    /\ pc = "shown"
    /\ sorted = <<>>
    /\ containment_map = EmptyDict
    /\ collections = <<>>
    /\ seeds = <<>>
    /\ parent_metadata = <<>>
    /\ child_metadata = <<>>
    /\ bbox = None
    /\ collection = <<>>
    /\ restored = <<>>
    /\ call = NoCall
    /\ file = MissingFile
    /\ loaded = NotLoaded
    /\ workflow = NoWorkflow
    /\ controller = NoController
    /\ storage = EmptyDict

\* process_folder_with_info: it ends before image_metadata is assigned (an
\* exception of save_session_info, no TIFF file), or it finds no valid
\* metadata, or it analyzes the images and saves the collections one by one.
ProcessFolderWithInfo ==
    /\ pc = "shown"
    /\ controller.runs < MaxRuns
    /\ \E m \in ControllerMaps, early \in BOOLEAN :
         IF early
         THEN /\ controller' = [controller EXCEPT !.runs = @ + 1]
              /\ UNCHANGED <<image_metadata, storage>>
         ELSE /\ image_metadata' = m
              /\ IF m.order = <<>>
                 THEN /\ controller' = [controller EXCEPT !.runs = @ + 1]
                      /\ UNCHANGED storage
                 ELSE \E hash_order \in HashOrders(m.order) :
                        \E objects \in {NewObjects(analyze_images(SessionId, SampleId, m, hash_order), controller.runs + 1)} :
                          \E saved \in 0..Len(objects) :
                            /\ controller' = after_analysis([controller EXCEPT !.runs = @ + 1], objects, saved)
                            /\ storage' = save_collections(Values(objects), 1, saved, storage)
    /\ UNCHANGED <<pc, sorted, containment_map, collections, seeds,
                   parent_metadata, child_metadata, bbox, collection, restored, call,
                   file, loaded, workflow>>

\* on_collection_selected(collection_index), from an entry of the menu.
OnCollectionSelected ==
    /\ pc = "shown"
    /\ \E collection_index \in -1..MaxShown :
         controller' = on_collection_selected(controller, collection_index)
    /\ UNCHANGED <<image_metadata, pc, sorted, containment_map, collections, seeds,
                   parent_metadata, child_metadata, bbox, collection, restored, call,
                   file, loaded, workflow, storage>>

\* display_next_collection()
DisplayNextCollection ==
    /\ pc = "shown"
    /\ controller' = display_next_collection(controller)
    /\ UNCHANGED <<image_metadata, pc, sorted, containment_map, collections, seeds,
                   parent_metadata, child_metadata, bbox, collection, restored, call,
                   file, loaded, workflow, storage>>

NextController == ProcessFolderWithInfo \/ OnCollectionSelected \/ DisplayNextCollection

SpecController == InitController /\ [][NextController]_vars

\* ================================================================== claims
Keyset == Range(image_metadata.order)

\* The children the analyzer's map lists under p, and the parents that list c.
Children(p) ==
    IF p \in Range(containment_map.order) THEN Range(containment_map.rec[p]) ELSE {}

Parents(c) == {p \in Keyset : c \in Children(p)}

\* The position of image k in the ascending-magnification order.
SortPos(k) == IndexOf(sorted, k)

ImagesOf(i) == Range(collections[i].images)

\* f <= g for fractions with positive denominators.
FracLe(f, g) == f[1] * g[2] <= g[1] * f[2]

\* C1: no image key is in the `images` list of two different collections that
\* analyze_images returned.
C1_NoImageInTwoCollections ==
    pc = "analyzed" =>
        \A i, j \in 1..Len(collections) :
            i # j => ImagesOf(i) \cap ImagesOf(j) = {}

\* C2: every image key of the metadata map is in the `images` list of at least
\* one returned collection, and the collections hold no key that is not in the map.
C2_EveryImageCollected ==
    pc = "analyzed" =>
        UNION {ImagesOf(i) : i \in 1..Len(collections)} = Keyset

C2_Witness ==
    /\ pc = "analyzed"
    /\ \E i, j \in 1..Len(collections) :
          Len(collections[i].images) > 2 /\ Len(collections[j].images) = 1

\* C3: for images P and C that both carry the four geometry fields, C after P in
\* the ascending-magnification order, C is a child of P in the analyzer's map
\* exactly if on the x axis and on the y axis (P_min - 0.05 * P_size) < C_min and
\* (P_max + 0.05 * P_size) > C_max, strictly.  (Both sides times 20.)
C3_Inside(P_c, P_size, C_c, C_size) ==
    /\ 20 * P_c - 10 * P_size - P_size < 20 * C_c - 10 * C_size
    /\ 20 * P_c + 10 * P_size + P_size > 20 * C_c + 10 * C_size

C3_InsideX(P, C) ==
    C3_Inside(image_metadata.rec[P]["sample_position_x"],
              image_metadata.rec[P]["field_of_view_width"],
              image_metadata.rec[C]["sample_position_x"],
              image_metadata.rec[C]["field_of_view_width"])

C3_InsideY(P, C) ==
    C3_Inside(image_metadata.rec[P]["sample_position_y"],
              image_metadata.rec[P]["field_of_view_height"],
              image_metadata.rec[C]["sample_position_y"],
              image_metadata.rec[C]["field_of_view_height"])

C3_Candidates ==
    {pr \in Keyset \X Keyset :
        /\ HasGeometry(image_metadata.rec[pr[1]])
        /\ HasGeometry(image_metadata.rec[pr[2]])
        /\ SortPos(pr[1]) < SortPos(pr[2])}

C3_ChildIffInsideOnBothAxes ==
    pc = "analyzed" =>
        \A pr \in C3_Candidates :
            pr[2] \in Children(pr[1]) <=> (C3_InsideX(pr[1], pr[2]) /\ C3_InsideY(pr[1], pr[2]))

C3_Witness ==
    /\ pc = "analyzed"
    /\ \E pr \in C3_Candidates :
          C3_InsideX(pr[1], pr[2]) /\ ~C3_InsideY(pr[1], pr[2]) /\ pr[2] \notin Children(pr[1])

\* C4: no image key is in its own child list in the analyzer's map.
C4_NoSelfContainment ==
    pc = "analyzed" => \A k \in Keyset : k \notin Children(k)

C4_Witness ==
    /\ pc = "analyzed"
    /\ \E k \in Keyset :
          /\ Children(k) # {}
          /\ C3_InsideX(k, k) /\ C3_InsideY(k, k)

\* C5: every edge of the analyzer's map goes from an image to an image strictly
\* later in the ascending-magnification order, and the map has no cycle.
RECURSIVE C5_Reach(_, _)
C5_Reach(S, n) ==
    IF n = 0 THEN S ELSE C5_Reach(S \cup UNION {Children(k) : k \in S}, n - 1)

C5_EdgesForwardNoCycle ==
    pc = "analyzed" =>
        /\ \A p \in Keyset : \A c \in Children(p) : SortPos(p) < SortPos(c)
        /\ \A k \in Keyset : k \notin C5_Reach(Children(k), Cardinality(Keyset))

C5_Witness ==
    /\ pc = "analyzed"
    /\ \E a, b, c \in Keyset : b \in Children(a) /\ c \in Children(b)

\* C6: a box (x1, y1, x2, y2) that _calculate_bounding_box returns has
\* 0 <= x1 <= x2 <= 1 and 0 <= y1 <= y2 <= 1.
C6_BoxOrderedInUnitSquare ==
    (pc = "boxed" /\ bbox # None) =>
        /\ 0 <= bbox[1][1] /\ FracLe(bbox[1], bbox[3]) /\ bbox[3][1] <= bbox[3][2]
        /\ 0 <= bbox[2][1] /\ FracLe(bbox[2], bbox[4]) /\ bbox[4][1] <= bbox[4][2]

\* C7: for a collection whose image keys contain no "|", from_dict(to_dict())
\* gives a collection with the same name, sample_id, images, metadata,
\* containment, bounding_boxes (keyed by (parent, child) pairs again) and colors.
C7_HasBar(key) == \E i \in 1..Len(key) : key[i] = "|"

C7_KeysOf(c) ==
    Range(c.images) \cup {pr[1] : pr \in Range(c.bounding_boxes.order)}
                    \cup {pr[2] : pr \in Range(c.bounding_boxes.order)}

C7_RoundTripRestoresCollection ==
    (pc = "restored" /\ \A key \in C7_KeysOf(collection) : ~C7_HasBar(key)) =>
        /\ ~restored.raised
        /\ restored.value.name = collection.name
        /\ restored.value.sample_id = collection.sample_id
        /\ restored.value.images = collection.images
        /\ restored.value.metadata = collection.metadata
        /\ restored.value.containment = collection.containment
        /\ restored.value.bounding_boxes.rec = collection.bounding_boxes.rec
        /\ restored.value.colors = collection.colors

C7_Witness ==
    /\ pc = "restored"
    /\ \A key \in C7_KeysOf(collection) : ~C7_HasBar(key)
    /\ Len(collection.images) = 2
    /\ Len(collection.bounding_boxes.order) >= 1
    /\ DOMAIN collection.colors # {}
    /\ ~restored.raised

\* C8: in every multi-image collection, every edge (P, child) of the analyzer's
\* map with both ends in the collection's images and a bounding box that is not
\* None has child listed in containment[P] and (P, child) a key of bounding_boxes.
C8_EveryInnerEdgeRegistered ==
    pc = "analyzed" =>
        \A i \in 1..Len(collections) : \A P \in ImagesOf(i) : \A child \in ImagesOf(i) :
            ( /\ Len(collections[i].images) > 1
              /\ child \in Children(P)
              /\ calculate_bounding_box(image_metadata.rec[P], image_metadata.rec[child]) # None )
            => /\ child \in Range(Get(collections[i].containment, P, <<>>))
               /\ <<P, child>> \in Range(collections[i].bounding_boxes.order)

\* C9: the collection created for a seed I (unused when reached from the highest
\* magnification down, with at least one containing parent) has as image set
\* exactly I, the parents of I and the direct children of those parents; every
\* image with a parent is such a seed or was claimed by an earlier seed.
C9_SeedSet(I) == {I} \cup Parents(I) \cup UNION {Children(p) : p \in Parents(I)}

C10_IncompleteImageIsSingleton ==
    pc = "analyzed" =>
        \A k \in Keyset :
            ~HasGeometry(image_metadata.rec[k]) =>
                /\ Children(k) = {}
                /\ Parents(k) = {}
                /\ k \notin Range(containment_map.order)
                /\ \E i \in 1..Len(collections) : collections[i].images = <<k>>
                /\ \A i \in 1..Len(collections) :
                      k \in ImagesOf(i) => collections[i].images = <<k>>

C10_Witness ==
    /\ pc = "analyzed"
    /\ containment_map.order # <<>>
    /\ \E k \in Keyset : ~HasGeometry(image_metadata.rec[k])

\* C11: _calculate_bounding_box returns None, and raises nothing, when the parent
\* record or the child record lacks one of the four geometry fields, the two
\* the code tests for ("sample_position_x", "field_of_view_width") and the two
\* it does not.
C11_Lacks(meta) == \E k \in GeometryFields : k \notin DOMAIN meta

C11_NoneWhenFieldMissing ==
    (pc = "boxed" /\ (C11_Lacks(parent_metadata) \/ C11_Lacks(child_metadata))) =>
        bbox = None

C11_Witness ==
    /\ pc = "boxed"
    /\ "sample_position_y" \notin DOMAIN parent_metadata
    /\ HasGeometry(child_metadata)
    /\ box_try(parent_metadata, child_metadata).exception = "KeyError"
    /\ bbox = None

\* C12: an image whose record has field_of_view_width = 0 is neither a parent
\* nor a child in the map _analyze_containment returns.
C12_ZeroWidth(k) ==
    /\ "field_of_view_width" \in DOMAIN image_metadata.rec[k]
    /\ image_metadata.rec[k]["field_of_view_width"] = 0

C12_ZeroWidthNeverInMap ==
    pc = "analyzed" =>
        \A k \in Keyset : C12_ZeroWidth(k) => Children(k) = {} /\ Parents(k) = {}

\* C13: for two records that carry the four geometry fields with numbers, zero
\* and negative fields of view included, _analyze_containment returns a map
\* (of the pair's keys, with no empty child list) and _calculate_bounding_box
\* returns a box or None, neither raising; with a parent field of view of
\* width or height 0 the calculator returns None.
C13_TotalOnNumericGeometry ==
    (pc = "boxed" /\ HasGeometry(parent_metadata) /\ HasGeometry(child_metadata)) =>
        /\ bbox # Raised
        /\ \A p \in Range(containment_map.order) :
              /\ p \in Keyset
              /\ containment_map.rec[p] # <<>>
              /\ Range(containment_map.rec[p]) \subseteq Keyset
        /\ ( \/ parent_metadata["field_of_view_width"] = 0
             \/ parent_metadata["field_of_view_height"] = 0 ) => bbox = None

C13_Witness ==
    /\ pc = "boxed"
    /\ HasGeometry(parent_metadata) /\ HasGeometry(child_metadata)
    /\ parent_metadata["field_of_view_width"] = 0
    /\ child_metadata["field_of_view_width"] < 0
    /\ containment_map.order # <<>>
    /\ box_try(parent_metadata, child_metadata).exception = "ZeroDivisionError"
    /\ bbox = None

\* C14: in every collection analyze_images returns, every parent and every
\* child of `containment`, both keys of every pair of `bounding_boxes` and every
\* key of `colors` is in the collection's `images`.
C14_ReferencedKeys(c) ==
    DOMAIN c.containment
      \cup UNION {Range(c.containment[p]) : p \in DOMAIN c.containment}
      \cup {pr[1] : pr \in Range(c.bounding_boxes.order)}
      \cup {pr[2] : pr \in Range(c.bounding_boxes.order)}
      \cup DOMAIN c.colors

C14_ReferencedKeysAreImages ==
    pc = "analyzed" =>
        \A i \in 1..Len(collections) : C14_ReferencedKeys(collections[i]) \subseteq ImagesOf(i)

C14_Witness ==
    /\ pc = "analyzed"
    /\ \E i \in 1..Len(collections) :
          /\ Len(collections[i].bounding_boxes.order) >= 2
          /\ DOMAIN collections[i].colors # {}
          /\ \E p \in Range(containment_map.order) :
                p \notin ImagesOf(i) /\ Children(p) \cap ImagesOf(i) # {}

\* C15: after any sequence of add_image, add_containment and assign_colors
\* calls on a new collection, the keys of `bounding_boxes` are exactly the pairs
\* (parent, child) with child listed in containment[parent], and no child is
\* listed twice under one parent.
C15_ListedPairs(c) ==
    UNION {{<<p, ch>> : ch \in Range(c.containment[p])} : p \in DOMAIN c.containment}

C15_BoxKeysAreListedPairs ==
    pc = "building" =>
        /\ Range(collection.bounding_boxes.order) = C15_ListedPairs(collection)
        /\ \A p \in DOMAIN collection.containment :
              Cardinality(Range(collection.containment[p])) = Len(collection.containment[p])

C15_Witness ==
    /\ pc = "building"
    /\ call.op = "add_containment"
    /\ call.args[2] \in Range(Get(call.before.containment, call.args[1], <<>>))
    /\ Len(call.before.images) > 0
    /\ DOMAIN call.before.colors # {}

\* C16: after assign_colors the child whose key has rank i (from 0) in the sorted
\* order of the collection's child keys has the colour palette[i mod 10].
C16_CodePoint(ch) == CASE ch = "a" -> 97 [] ch = "b" -> 98 [] ch = "|" -> 124

\* k1 < k2 as Python compares str: by the first differing character, a proper
\* prefix first.
C16_KeyLess(k1, k2) ==
    \E i \in 1..(Len(k1) + 1) :
        /\ i <= Len(k2)
        /\ \A j \in 1..(i - 1) : k1[j] = k2[j]
        /\ (i = Len(k1) + 1 \/ C16_CodePoint(k1[i]) < C16_CodePoint(k2[i]))

C16_Rank(child) ==
    Cardinality({k \in HighMagImages(collection) : C16_KeyLess(k, child)})

C16_ColourByRankOfSortedKey ==
    call.op = "assign_colors" =>
        \A child \in HighMagImages(collection) :
            collection.colors[child] = Palette[(C16_Rank(child) % 10) + 1]

\* C17: to_dict does not emit the string "parent|child" for a pair of
\* bounding_boxes one of whose keys contains "|": it rejects the collection or
\* escapes the key.
C17_NoAmbiguousPairString ==
    (pc = "saved" /\ file.exists) =>
        \A pr \in Range(collection.bounding_boxes.order) :
            (C7_HasBar(pr[1]) \/ C7_HasBar(pr[2])) =>
                PairKey(pr[1], pr[2]) \notin Range(file.data.bounding_boxes.order)

\* C18: load_collection never raises; on a file one of whose bounding_boxes keys
\* holds no "|" or more than one it returns None (from_dict failed), and every
\* pair of a collection it returns is the two halves of a key with exactly one "|".
C18_Bars(key) == Cardinality({i \in 1..Len(key) : key[i] = "|"})

C18_MalformedKeyFailsLoad ==
    pc = "loaded" =>
        /\ loaded.outcome \in {"None", "collection"}
        /\ ( /\ file.exists
             /\ \E key \in Range(file.data.bounding_boxes.order) : C18_Bars(key) # 1 )
           => loaded.outcome = "None"
        /\ loaded.outcome = "collection" =>
              \A pr \in Range(loaded.value.bounding_boxes.order) :
                  /\ C18_Bars(pr[1]) = 0 /\ C18_Bars(pr[2]) = 0
                  /\ PairKey(pr[1], pr[2]) \in Range(file.data.bounding_boxes.order)

C18_Witness ==
    /\ pc = "loaded"
    /\ file.exists
    /\ \E key \in Range(file.data.bounding_boxes.order) : C18_Bars(key) = 0
    /\ Len(file.data.images) > 0
    /\ loaded.outcome = "None"

\* C19: add_image(key, metadata) on a collection that holds key leaves `images`
\* and `metadata` as they were; on a collection that does not hold key it
\* appends key to `images` and records metadata under key; it changes nothing else.
C19_AddImageFrame ==
    call.op = "add_image" =>
        /\ call.args[1] \in Range(call.before.images) =>
              /\ collection.images = call.before.images
              /\ collection.metadata = call.before.metadata
        /\ call.args[1] \notin Range(call.before.images) =>
              /\ collection.images = Append(call.before.images, call.args[1])
              /\ DOMAIN collection.metadata = DOMAIN call.before.metadata \cup {call.args[1]}
              /\ collection.metadata[call.args[1]] = call.args[2]
              /\ \A k \in DOMAIN call.before.metadata \ {call.args[1]} :
                    collection.metadata[k] = call.before.metadata[k]
        /\ collection.name = call.before.name
        /\ collection.session_id = call.before.session_id
        /\ collection.sample_id = call.before.sample_id
        /\ collection.containment = call.before.containment
        /\ collection.bounding_boxes = call.before.bounding_boxes
        /\ collection.colors = call.before.colors

C19_Witness ==
    /\ call.op = "add_image"
    /\ call.args[1] \in Range(call.before.images)
    /\ call.before.metadata[call.args[1]] # call.args[2]
    /\ DOMAIN call.before.containment # {}

\* C20: add_containment(parent, child, bbox) with child already listed under
\* parent leaves `containment` and `bounding_boxes` as they were; otherwise it
\* appends child to containment[parent] and records bbox under (parent, child).
C20_Listed == Get(call.before.containment, call.args[1], <<>>)

C20_AddContainmentFrame ==
    call.op = "add_containment" =>
        /\ call.args[2] \in Range(C20_Listed) =>
              /\ collection.containment = call.before.containment
              /\ collection.bounding_boxes = call.before.bounding_boxes
        /\ call.args[2] \notin Range(C20_Listed) =>
              /\ DOMAIN collection.containment = DOMAIN call.before.containment \cup {call.args[1]}
              /\ collection.containment[call.args[1]] = Append(C20_Listed, call.args[2])
              /\ \A p \in DOMAIN call.before.containment \ {call.args[1]} :
                    collection.containment[p] = call.before.containment[p]
              /\ collection.bounding_boxes.order =
                    Append(call.before.bounding_boxes.order, <<call.args[1], call.args[2]>>)
              /\ collection.bounding_boxes.rec[<<call.args[1], call.args[2]>>] = call.args[3]
              /\ \A pr \in Range(call.before.bounding_boxes.order) :
                    collection.bounding_boxes.rec[pr] = call.before.bounding_boxes.rec[pr]

C20_Witness ==
    /\ call.op = "add_containment"
    /\ call.args[2] \in Range(C20_Listed)
    /\ call.before.bounding_boxes.rec[<<call.args[1], call.args[2]>>] # call.args[3]
    /\ collection = call.before

\* C21: in the returned list every multi-image collection precedes every
\* single-image collection; the multi-image collections are in the order of
\* their seeds from the highest magnification down, and the single-image
\* collections in ascending magnification of their image.
C21_IsSingle(i) == Len(collections[i].images) = 1

C21_MultiThenSingleInSeedOrder ==
    pc = "analyzed" =>
        /\ \A i \in 1..Len(collections) : C21_IsSingle(i) <=> i > Len(seeds)
        /\ \A k \in 1..Len(seeds) :
              /\ seeds[k] \in ImagesOf(k)
              /\ \A l \in (k + 1)..Len(seeds) :
                    /\ SortPos(seeds[k]) > SortPos(seeds[l])
                    /\ SortKey(image_metadata, seeds[k]) >= SortKey(image_metadata, seeds[l])
        /\ \A i \in 1..Len(collections) : \A j \in (i + 1)..Len(collections) :
              (C21_IsSingle(i) /\ C21_IsSingle(j)) =>
                 /\ SortPos(collections[i].images[1]) < SortPos(collections[j].images[1])
                 /\ SortKey(image_metadata, collections[i].images[1])
                       <= SortKey(image_metadata, collections[j].images[1])

C21_Witness ==
    /\ pc = "analyzed"
    /\ Len(seeds) >= 1
    /\ Len(collections) >= Len(seeds) + 2
    /\ SortKey(image_metadata, collections[Len(collections)].images[1])
          > SortKey(image_metadata, collections[Len(collections) - 1].images[1])

\* C22: when the images form a fully nested chain (every image contains every
\* image after it in the ascending-magnification order), analyze_images returns
\* exactly one collection and it holds every image.
C22_IsChain ==
    /\ Keyset # {}
    /\ \A a, b \in Keyset : SortPos(a) < SortPos(b) => b \in Children(a)

C22_ChainGivesOneCollection ==
    (pc = "analyzed" /\ C22_IsChain) =>
        /\ Len(collections) = 1
        /\ ImagesOf(1) = Keyset
        /\ Len(collections[1].images) = Cardinality(Keyset)

C22_Witness ==
    /\ pc = "analyzed"
    /\ C22_IsChain
    /\ Len(sorted) = 3
    /\ SortKey(image_metadata, sorted[1]) < SortKey(image_metadata, sorted[2])
    /\ SortKey(image_metadata, sorted[2]) < SortKey(image_metadata, sorted[3])
    /\ Len(collections) = 1

\* C23: for a parent P and a child C with the four geometry fields and positive
\* fields of view, the child's extent inside the parent's extent without margin,
\* _calculate_bounding_box returns x1 = 0.5 + (Cx - Cw/2 - Px)/Pw,
\* x2 = 0.5 + (Cx + Cw/2 - Px)/Pw, y1 = 0.5 - (Cy + Ch/2 - Py)/Ph,
\* y2 = 0.5 - (Cy - Ch/2 - Py)/Ph, unclamped; for a parent 1000 x 1000 and a
\* child 100 x 100, both at (0, 0), the box is (0.45, 0.45, 0.55, 0.55).
C23_FracEq(f, g) == f[1] * g[2] = g[1] * f[2]

C23_Square(w, x, y) ==
    [field_of_view_width |-> w, field_of_view_height |-> w,
     sample_position_x |-> x, sample_position_y |-> y]

\* C_min >= P_min and C_max <= P_max on one axis, times 2.
C23_Within(P_c, P_size, C_c, C_size) ==
    /\ 2 * C_c - C_size >= 2 * P_c - P_size
    /\ 2 * C_c + C_size <= 2 * P_c + P_size

C23_Applies ==
    /\ HasGeometry(parent_metadata) /\ HasGeometry(child_metadata)
    /\ parent_metadata["field_of_view_width"] > 0 /\ parent_metadata["field_of_view_height"] > 0
    /\ child_metadata["field_of_view_width"] > 0 /\ child_metadata["field_of_view_height"] > 0
    /\ C23_Within(parent_metadata["sample_position_x"], parent_metadata["field_of_view_width"],
                  child_metadata["sample_position_x"], child_metadata["field_of_view_width"])
    /\ C23_Within(parent_metadata["sample_position_y"], parent_metadata["field_of_view_height"],
                  child_metadata["sample_position_y"], child_metadata["field_of_view_height"])

\* 0.5 + sign * (C_c + side * C_size/2 - P_c) / P_size as a fraction.
C23_Coordinate(sign, C_c, side, C_size, P_c, P_size) ==
    <<P_size + sign * (2 * C_c + side * C_size - 2 * P_c), 2 * P_size>>

C23_UnclampedBoxFormula ==
    pc = "boxed" =>
        /\ C23_Applies =>
              /\ bbox # None
              /\ C23_FracEq(bbox[1], C23_Coordinate(1, child_metadata["sample_position_x"], -1,
                                child_metadata["field_of_view_width"],
                                parent_metadata["sample_position_x"],
                                parent_metadata["field_of_view_width"]))
              /\ C23_FracEq(bbox[3], C23_Coordinate(1, child_metadata["sample_position_x"], 1,
                                child_metadata["field_of_view_width"],
                                parent_metadata["sample_position_x"],
                                parent_metadata["field_of_view_width"]))
              /\ C23_FracEq(bbox[2], C23_Coordinate(-1, child_metadata["sample_position_y"], 1,
                                child_metadata["field_of_view_height"],
                                parent_metadata["sample_position_y"],
                                parent_metadata["field_of_view_height"]))
              /\ C23_FracEq(bbox[4], C23_Coordinate(-1, child_metadata["sample_position_y"], -1,
                                child_metadata["field_of_view_height"],
                                parent_metadata["sample_position_y"],
                                parent_metadata["field_of_view_height"]))
        /\ \A i \in 1..4 :
              C23_FracEq(calculate_bounding_box(C23_Square(1000, 0, 0), C23_Square(100, 0, 0))[i],
                         IF i <= 2 THEN <<45, 100>> ELSE <<55, 100>>)

C23_Witness ==
    /\ pc = "boxed"
    /\ C23_Applies
    /\ parent_metadata["field_of_view_height"] > child_metadata["field_of_view_height"]
    /\ child_metadata["sample_position_y"] > parent_metadata["sample_position_y"]
    /\ bbox # None
    /\ bbox[2][1] = 0

\* C24: with the containment test read at a margin fraction m, for a parent P
\* with positive fields of view: if C is contained in P at m, C is contained in
\* P at every m' > m.  (Margins n / MarginDen; the code's is MarginNum / MarginDen,
\* at which the test is the analyzer's for a parent sorted before the child.)
C24_ContainedAt(P, C, margin_num) ==
    /\ AxisContainedAt(P["sample_position_x"], P["field_of_view_width"],
                       C["sample_position_x"], C["field_of_view_width"], margin_num)
    /\ AxisContainedAt(P["sample_position_y"], P["field_of_view_height"],
                       C["sample_position_y"], C["field_of_view_height"], margin_num)

C24_Applies ==
    /\ pc \in {"contained", "boxed"}
    /\ HasGeometry(parent_metadata) /\ HasGeometry(child_metadata)
    /\ parent_metadata["field_of_view_width"] > 0
    /\ parent_metadata["field_of_view_height"] > 0

C24_MarginOnlyRelaxes ==
    C24_Applies =>
        /\ \A m \in 0..MaxMarginNum : \A m2 \in (m + 1)..MaxMarginNum :
              C24_ContainedAt(parent_metadata, child_metadata, m)
                 => C24_ContainedAt(parent_metadata, child_metadata, m2)
        /\ sorted = Keys(2) =>
              (C24_ContainedAt(parent_metadata, child_metadata, MarginNum)
                  <=> Keys(2)[2] \in Children(Keys(2)[1]))

C24_Witness ==
    /\ C24_Applies
    /\ ~C24_ContainedAt(parent_metadata, child_metadata, 0)
    /\ C24_ContainedAt(parent_metadata, child_metadata, MarginNum)
    /\ Keys(2)[2] \in Children(Keys(2)[1])

\* C25: when the analyzer's containment map is empty, analyze_images returns one
\* collection per image, in ascending-magnification order, each holding that
\* image alone with its metadata and with empty containment, bounding_boxes and colors.
C25_NoContainmentGivesSingles ==
    (pc = "analyzed" /\ containment_map.order = <<>>) =>
        /\ Len(collections) = Cardinality(Keyset)
        /\ \A i \in 1..Len(collections) :
              /\ collections[i].images = <<sorted[i]>>
              /\ DOMAIN collections[i].metadata = {sorted[i]}
              /\ collections[i].metadata[sorted[i]] = image_metadata.rec[sorted[i]]
              /\ DOMAIN collections[i].containment = {}
              /\ collections[i].bounding_boxes.order = <<>>
              /\ DOMAIN collections[i].colors = {}

C25_Witness ==
    /\ pc = "analyzed"
    /\ containment_map.order = <<>>
    /\ Len(collections) = 3
    /\ \A k \in Keyset : HasGeometry(image_metadata.rec[k])

\* C26: analyze_images on a metadata map of zero images returns the empty list
\* (it returns at its first test, before any step that could fail).
C26_EmptyMapGivesEmptyList ==
    (pc = "analyzed" /\ image_metadata.order = <<>>) =>
        /\ collections = <<>>
        /\ seeds = <<>>
        /\ containment_map = EmptyDict

C26_Witness ==
    /\ pc = "analyzed"
    /\ image_metadata = EmptyDict
    /\ Len(collections) = 0

C28_ExecuteOutcome == <<workflow.outcome.kind = "returned", workflow.outcome.value>>

C28_HasAllInputs ==
    \A i \in 1..Len(get_required_inputs(workflow.workflow_type)) :
        get_required_inputs(workflow.workflow_type)[i] \in workflow.kwargs

C28_CallbackExactlyOnce ==
    pc = "called" =>
        IF C28_HasAllInputs
        THEN /\ workflow.main = "returned"
             /\ Len(workflow.callbacks) <= 1
             /\ workflow.thread \in {"finished", "died"} =>
                    /\ workflow.executed = 1
                    /\ workflow.callbacks = <<C28_ExecuteOutcome>>
        ELSE /\ workflow.main = "ValueError"
             /\ workflow.executed = 0
             /\ workflow.callbacks = <<>>
             /\ workflow.thread = ""

\* ---------------------------------------------------------------------------
\* C29: in ScaleGridController, after any sequence of process_folder_with_info,
\* on_collection_selected and display_next_collection calls, runs that end
\* early or fail while saving included, current_collection is None or an
\* element of current_collections, and display_next_collection finds it in
\* the list: list.index does not raise ValueError.
\* ---------------------------------------------------------------------------
C29_CurrentCollectionInList ==
    /\ \/ controller.current_collection = None
       \/ \E i \in 1..Len(controller.current_collections) :
            controller.current_collections[i].object = controller.current_collection
    /\ controller.raised = ""

\* ---------------------------------------------------------------------------
\* C30: the collections one analyze_images call returns for distinct image
\* keys get pairwise distinct file paths from save_collection, and after all
\* are saved in turn the file of each holds that collection: none was
\* overwritten by another's.
\* ---------------------------------------------------------------------------
C30_DistinctFilePaths ==
    pc = "stored" =>
        /\ \A i, j \in 1..Len(collections) :
              file_path(collections[i]) = file_path(collections[j]) => i = j
        /\ \A i \in 1..Len(collections) :
              storage.rec[file_path(collections[i])] = save_collection(collections[i])

====
